---- MODULE Spec2Model ----
(***************************************************************************)
(* The request pipeline of the Azure resource management API               *)
(* (src/src/backend/python/az): correlation middleware, routers, service   *)
(* layer, exception handlers, and the backend they call.                   *)
(*                                                                         *)
(* One request is one task.  A task goes                                   *)
(*   idle -> started     CorrelationMiddleware.dispatch up to call_next    *)
(*        -> calling     call_next has reached the route function's        *)
(*                       backend call (skipped when it makes none)         *)
(*        -> dispatched  call_next: dependencies, validation, the route    *)
(*                       handler with its service and backend calls, and   *)
(*                       the exception handler of the inner middleware     *)
(*        -> completed | failed   the rest of dispatch, and for an         *)
(*                       exception that escapes it the catch-all handler   *)
(*                       and the server's own fallback.                    *)
(* The SDK calls are synchronous calls inside async functions: from the    *)
(* start of a backend call to the return of call_next the request keeps    *)
(* the event loop's thread, and no other request takes a step.             *)
(***************************************************************************)
EXTENDS Integers, Sequences, FiniteSets, TLC

VARIABLES
    pc,       \* task -> "idle" | "started" | "calling" | "dispatched" | "completed" | "failed"
    req,      \* task -> the inbound request
    corr,     \* task -> corr_id, the local of dispatch (a Python value)
    ctx,      \* task -> value of the context variable correlation_id in the task's context
    gen,      \* task -> TRUE when generate_correlation_id() was called for the request
    calls,    \* task -> sequence of backend operations the request invoked
    inner,    \* task -> what call_next produced: a response or a raised exception
    built,    \* task -> sequence of the error responses exception handlers constructed
    fault,    \* task -> the failure the backend reported to the request, if any
    logs,     \* task -> the warning and error entries logged for the request, in order
    resp,     \* task -> the response put on the wire
    running,  \* the task blocking the event loop's thread in a backend call, or "none"
    store,    \* the backend: kind -> name -> entity
    environ,  \* the process environment the settings are read from
    settings, \* the cache of get_settings: empty, or the one Settings value
    extract   \* a call of _extract_resource_group_from_id: its argument and its result

vars == <<pc, req, corr, ctx, gen, calls, inner, built, fault, logs, resp, running, store,
          environ, settings, extract>>

----------------------------------------------------------------------------
(* Bounds of the model *)

\* how many resource groups the backend can hold
MaxGroups == 2
MaxIdLen == 5

\* the request tasks; Spec runs the requests of ActiveTasks
Tasks == {"t1", "t2"}
ActiveTasks == {"t1"}

----------------------------------------------------------------------------
(* Python values: None, str, list, datetime, with Python's truthiness.      *)
(* The value of a str is a sequence (of characters or of words).           *)

PyNone == [ty |-> "NoneType"]
PyStr(s) == [ty |-> "str", val |-> s]
PyList(q) == [ty |-> "list", val |-> q]
PyDatetime == [ty |-> "datetime"]

Truthy(v) ==
    CASE v.ty = "NoneType" -> FALSE
      [] v.ty = "str" -> v.val # <<>>
      [] v.ty = "list" -> Len(v.val) > 0
      [] OTHER -> TRUE

\* faulty variant: the left operand whatever it is
PyOr_left(a, b) == a

\* a or b
PyOr(a, b) == IF Truthy(a) THEN a ELSE b

----------------------------------------------------------------------------
(* Text: a string is a sequence of words; s.lower() and "pat" in s *)

LowerWord(w) ==
    CASE w = "Not" -> "not"
      [] w = "Found" -> "found"
      [] w = "Already" -> "already"
      [] w = "Exists" -> "exists"
      [] w = "Conflict" -> "conflict"
      [] w = "Bad" -> "bad"
      [] w = "Request" -> "request"
      [] w = "Invalid" -> "invalid"
      [] OTHER -> w

Lower(s) == [i \in 1..Len(s) |-> LowerWord(s[i])]

\* pat in s
Contains(pat, s) ==
    \E i \in 1..(Len(s) - Len(pat) + 1) : SubSeq(s, i, i + Len(pat) - 1) = pat

\* the wordings a backend failure may carry (str(e))
Messages ==
    { <<"could", "not", "be", "found">>,
      <<"was", "Not", "Found">>,
      <<"Already", "Exists">>,
      <<"Conflict", "invalid">>,
      <<"Bad", "Request">>,
      <<"connection", "timed", "out">> }

----------------------------------------------------------------------------
(* The backend *)

Kinds == {"rg", "sa"}
NameOrder(k) == IF k = "rg" THEN [i \in 1..MaxGroups |-> "rg" \o ToString(i)] ELSE <<"sa1">>
NamesOf(k) == {NameOrder(k)[i] : i \in 1..Len(NameOrder(k))}

EmptyTags == "{}"
SomeTags == "{env:prod}"
TagValues == {EmptyTags, SomeTags}
Location == <<"westus">>

\* deleting: the backend has been asked to delete the entity and has not yet
Absent == [present |-> FALSE, deleting |-> FALSE, location |-> Location, tags |-> EmptyTags]
Entity(l, t) == [present |-> TRUE, deleting |-> FALSE, location |-> l, tags |-> t]
Entities == {Absent} \cup {Entity(Location, t) : t \in TagValues}

Stores == [rg : [NamesOf("rg") -> Entities], sa : [NamesOf("sa") -> Entities]]

\* what the SDK hands back for a stored entity: tags is None when there are none
SdkObject(n, e) ==
    [name |-> n, location |-> e.location,
     tags |-> IF e.tags = EmptyTags THEN "None" ELSE e.tags]

\* failures the backend reports, each with any wording
NoFault == [cls |-> "none", reason |-> "none", msg |-> <<>>]
SdkError(c, why, m) == [cls |-> c, reason |-> why, msg |-> m]
NotFoundFault(m) == SdkError("ResourceNotFoundError", "missing", m)
InjectedFaults ==
    { SdkError(p[1], p[2], m) :
        p \in { <<"ResourceExistsError", "conflict">>,
                <<"HttpResponseError", "forbidden">>,
                <<"ServiceRequestError", "transient">> },
        m \in Messages }

----------------------------------------------------------------------------
(* Requests *)

Ops == {"list", "get", "create", "update", "delete"}
OmittedTags == "None"
NoBody == [name |-> "", location |-> PyNone, tags |-> OmittedTags]

\* X-Correlation-ID of the inbound request: absent, empty, or a token
Headers == {PyNone, PyStr(<<>>), PyStr(<<"c", "1">>)}

\* what uuid4 may yield, cut to its first 8 characters
Uuids ==
    { <<"1", "b", "9", "d", "6", "b", "c", "d", "-", "b", "b">>,
      <<"9", "c", "5", "b", "9", "4", "b", "1", "-", "3", "5">> }

CreateBodies(k) ==
    [name : NamesOf(k) \cup {""},
     location : {PyStr(Location), PyNone},
     tags : {OmittedTags, SomeTags}]

UpdateBodies == [name : {""}, location : {PyNone}, tags : {OmittedTags, SomeTags}]

\* GET /health
HealthRequests ==
    [kind : {"health"}, op : {"health"}, name : {""}, header : Headers, body : {NoBody}]

Requests ==
    HealthRequests \cup
    UNION { [kind : {k}, op : {"list"}, name : {""}, header : Headers, body : {NoBody}]
            \cup [kind : {k}, op : {"get", "delete"}, name : NamesOf(k),
                  header : Headers, body : {NoBody}]
            \cup [kind : {k}, op : {"create"}, name : {""},
                  header : Headers, body : CreateBodies(k)]
            \cup [kind : {k}, op : {"update"}, name : NamesOf(k),
                  header : Headers, body : UpdateBodies]
            : k \in Kinds }

\* the resource group every storage-account path names
SaGroup == "rg1"

NoOutcome == [tag |-> "none"]

----------------------------------------------------------------------------
(* api/core/logging.py *)

\* str(uuid.uuid4())[:8]
generate_correlation_id(u) == PyStr(SubSeq(u, 1, 8))

----------------------------------------------------------------------------
(* The SDK operations the service calls.  Each raises the failure injected *)
(* into it, or answers from the store; a name the store does not hold is   *)
(* reported with the typed not-found error, in any wording.                *)

SdkOk(v, st) == [tag |-> "ok", val |-> v, store |-> st]
SdkRaise(e, st) == [tag |-> "err", exc |-> e, store |-> st]

sdk_list(k, f, st) ==
    IF f # NoFault THEN SdkRaise(f, st)
    ELSE LET held == SelectSeq(NameOrder(k), LAMBDA n : st[k][n].present)
         IN SdkOk([i \in 1..Len(held) |-> SdkObject(held[i], st[k][held[i]])], st)

sdk_get(k, n, f, m, st) ==
    IF f # NoFault THEN SdkRaise(f, st)
    ELSE IF ~st[k][n].present THEN SdkRaise(NotFoundFault(m), st)
    ELSE SdkOk(SdkObject(n, st[k][n]), st)

sdk_create(k, n, params, f, st) ==
    IF f # NoFault THEN SdkRaise(f, st)
    ELSE LET e == [Entity(params.location, params.tags)
                      EXCEPT !.deleting = st[k][n].deleting]
         IN SdkOk(SdkObject(n, e), [st EXCEPT ![k][n] = e])

\* a tags parameter of None is not sent, and the stored tags stay
sdk_update(k, n, params, f, st) ==
    IF f # NoFault THEN SdkRaise(f, st)
    ELSE LET e == IF params.tags = "None" THEN st[k][n]
                  ELSE [st[k][n] EXCEPT !.tags = params.tags]
         IN SdkOk(SdkObject(n, e), [st EXCEPT ![k][n] = e])

\* storage_accounts.delete: the account is gone when the call returns
sdk_delete(k, n, f, st) ==
    IF f # NoFault THEN SdkRaise(f, st)
    ELSE SdkOk("None", [st EXCEPT ![k][n] = Absent])

\* resource_groups.begin_delete: the deletion is started and a poller handed
\* back; the group is still there until the backend has finished
sdk_begin_delete(k, n, f, st) ==
    IF f # NoFault THEN SdkRaise(f, st)
    ELSE SdkOk("LROPoller", [st EXCEPT ![k][n].deleting = TRUE])

----------------------------------------------------------------------------
(* api/services/azure_service.py *)

\* logger.warning(...) and logger.error(...): the level and the function logging
Log(level, at) == <<[level |-> level, at |-> at]>>

SvcOk(v, c, st) ==
    [tag |-> "ok", val |-> v, exc |-> NoFault, calls |-> c, logs |-> <<>>, store |-> st]
SvcRaise(e, c, l, st) == [tag |-> "err", exc |-> e, calls |-> c, logs |-> l, store |-> st]

\* except ResourceNotFoundError: logger.warning(...); except Exception: logger.error(...)
LogExcept(e, at) ==
    Log(IF e.cls = "ResourceNotFoundError" THEN "warning" ELSE "error", at)

\* faulty variant: the tags as they are, None included
TagsOrEmpty_asis(t) == t

\* tags or {}
TagsOrEmpty(t) == IF t \in {"None", EmptyTags} THEN EmptyTags ELSE t

\* ResourceGroup(...) and StorageAccount(...) as the service fills them
ToModel(o) == [name |-> o.name, location |-> o.location, tags |-> TagsOrEmpty(o.tags)]

AzureService_list_resource_groups(f, st) ==
    LET r == sdk_list("rg", f, st)
    IN IF r.tag = "err"
       THEN SvcRaise(r.exc, <<"list">>, Log("error", "AzureService.list_resource_groups"), st)
       ELSE SvcOk([i \in 1..Len(r.val) |-> ToModel(r.val[i])], <<"list">>, st)

\* faulty variant: a snapshot kept from an earlier read is returned and the
\* backend is not asked
AzureService_get_resource_group_cached(name, f, m, st) ==
    SvcOk(ToModel(SdkObject(name, Entity(Location, EmptyTags))), <<>>, st)

AzureService_get_resource_group(name, f, m, st) ==
    LET r == sdk_get("rg", name, f, m, st)
    IN IF r.tag = "err"
       THEN SvcRaise(r.exc, <<"get">>, LogExcept(r.exc, "AzureService.get_resource_group"), st)
       ELSE SvcOk(ToModel(r.val), <<"get">>, st)

AzureService_create_resource_group(resource_group, f, st) ==
    LET parameters == [location |-> resource_group.location.val,
                       tags |-> TagsOrEmpty(resource_group.tags)]
        r == sdk_create("rg", resource_group.name, parameters, f, st)
    IN IF r.tag = "err"
       THEN SvcRaise(r.exc, <<"create">>, Log("error", "AzureService.create_resource_group"), st)
       ELSE SvcOk(ToModel(r.val), <<"create">>, r.store)

\* faulty variant: the update is issued without the existence read
AzureService_update_resource_group_unchecked(name, update, f1, m, f2, st) ==
    LET r == sdk_update("rg", name, [tags |-> TagsOrEmpty(update.tags)], f2, st)
    IN IF r.tag = "err"
       THEN SvcRaise(r.exc, <<"update">>, LogExcept(r.exc, "AzureService.update_resource_group"), st)
       ELSE SvcOk(ToModel(r.val), <<"update">>, r.store)

AzureService_update_resource_group(name, update, f1, m, f2, st) ==
    LET g == AzureService_get_resource_group(name, f1, m, st)
    IN IF g.tag = "err"
       THEN SvcRaise(g.exc, g.calls, g.logs \o LogExcept(g.exc, "AzureService.update_resource_group"), st)
       ELSE LET parameters == [tags |-> TagsOrEmpty(update.tags)]
                r == sdk_update("rg", name, parameters, f2, st)
            IN IF r.tag = "err"
               THEN SvcRaise(r.exc, g.calls \o <<"update">>, LogExcept(r.exc, "AzureService.update_resource_group"), st)
               ELSE SvcOk(ToModel(r.val), g.calls \o <<"update">>, r.store)

AzureService_delete_resource_group(name, f1, m, f2, st) ==
    LET g == AzureService_get_resource_group(name, f1, m, st)
    IN IF g.tag = "err"
       THEN SvcRaise(g.exc, g.calls, g.logs \o LogExcept(g.exc, "AzureService.delete_resource_group"), st)
       ELSE LET r == sdk_begin_delete("rg", name, f2, st)
            IN IF r.tag = "err"
               THEN SvcRaise(r.exc, g.calls \o <<"delete">>, LogExcept(r.exc, "AzureService.delete_resource_group"), st)
               ELSE SvcOk("None", g.calls \o <<"delete">>, r.store)

AzureService_list_storage_accounts(f, st) ==
    LET r == sdk_list("sa", f, st)
    IN IF r.tag = "err"
       THEN SvcRaise(r.exc, <<"list">>, Log("error", "AzureService.list_storage_accounts"), st)
       ELSE SvcOk([i \in 1..Len(r.val) |-> ToModel(r.val[i])], <<"list">>, st)

AzureService_get_storage_account(resource_group, name, f, m, st) ==
    LET r == sdk_get("sa", name, f, m, st)
    IN IF r.tag = "err"
       THEN SvcRaise(r.exc, <<"get">>, LogExcept(r.exc, "AzureService.get_storage_account"), st)
       ELSE SvcOk(ToModel(r.val), <<"get">>, st)

AzureService_create_storage_account(storage_account, f, st) ==
    LET parameters == [location |-> storage_account.location.val,
                       tags |-> TagsOrEmpty(storage_account.tags)]
        r == sdk_create("sa", storage_account.name, parameters, f, st)
    IN IF r.tag = "err"
       THEN SvcRaise(r.exc, <<"create">>, Log("error", "AzureService.create_storage_account"), st)
       ELSE SvcOk(ToModel(r.val), <<"create">>, r.store)

AzureService_update_storage_account(resource_group, name, update, f1, m, f2, st) ==
    LET g == AzureService_get_storage_account(resource_group, name, f1, m, st)
    IN IF g.tag = "err"
       THEN SvcRaise(g.exc, g.calls, g.logs \o LogExcept(g.exc, "AzureService.update_storage_account"), st)
       ELSE LET parameters == [tags |-> update.tags]
                r == sdk_update("sa", name, parameters, f2, st)
            IN IF r.tag = "err"
               THEN SvcRaise(r.exc, g.calls \o <<"update">>, LogExcept(r.exc, "AzureService.update_storage_account"), st)
               ELSE SvcOk(ToModel(r.val), g.calls \o <<"update">>, r.store)

AzureService_delete_storage_account(resource_group, name, f1, m, f2, st) ==
    LET g == AzureService_get_storage_account(resource_group, name, f1, m, st)
    IN IF g.tag = "err"
       THEN SvcRaise(g.exc, g.calls, g.logs \o LogExcept(g.exc, "AzureService.delete_storage_account"), st)
       ELSE LET r == sdk_delete("sa", name, f2, st)
            IN IF r.tag = "err"
               THEN SvcRaise(r.exc, g.calls \o <<"delete">>, LogExcept(r.exc, "AzureService.delete_storage_account"), st)
               ELSE SvcOk("None", g.calls \o <<"delete">>, r.store)

\* an Azure resource id: None, or a string of at most MaxIdLen pieces, each a
\* '/' or a piece of text without one
IdPieces == {"/", "resourceGroups", "resourcegroups", "rg1"}
ResourceIds ==
    {PyNone} \cup {PyStr(s) : s \in UNION {[1..n -> IdPieces] : n \in 0..MaxIdLen}}

\* the first '/' of s, 0 when it has none
FirstSlash(s) ==
    IF \E i \in 1..Len(s) : s[i] = "/"
    THEN CHOOSE i \in 1..Len(s) : s[i] = "/" /\ \A j \in 1..(i - 1) : s[j] # "/"
    ELSE 0

\* resource_id.split('/'): the runs between the slashes, the empty ones too
RECURSIVE Split(_)
Split(s) ==
    IF FirstSlash(s) = 0 THEN <<s>>
    ELSE <<SubSeq(s, 1, FirstSlash(s) - 1)>> \o Split(SubSeq(s, FirstSlash(s) + 1, Len(s)))

\* faulty variant: the last element equal to x
ListIndex_last(parts, x) ==
    IF \E i \in 1..Len(parts) : parts[i] = x
    THEN CHOOSE i \in 1..Len(parts) :
            parts[i] = x /\ \A j \in (i + 1)..Len(parts) : parts[j] # x
    ELSE 0

\* parts.index(x): the position of the first element equal to x, counted from
\* 1; 0 stands for the ValueError raised when there is none
ListIndex(parts, x) ==
    IF \E i \in 1..Len(parts) : parts[i] = x
    THEN CHOOSE i \in 1..Len(parts) : parts[i] = x /\ \A j \in 1..(i - 1) : parts[j] # x
    ELSE 0

\* AzureService._extract_resource_group_from_id; the ValueError of index is
\* caught and the function falls through to return ""
extract_resource_group_from_id(resource_id) ==
    IF ~Truthy(resource_id) THEN <<>>
    ELSE LET parts == Split(resource_id.val)
             rg_index == ListIndex(parts, <<"resourceGroups">>)
         IN IF rg_index = 0 THEN <<>>
            ELSE IF rg_index + 1 <= Len(parts) THEN parts[rg_index + 1]
            ELSE <<>>

----------------------------------------------------------------------------
(* api/core/config.py *)

\* the environment variables the settings are read from; a field whose
\* variable is unset takes its default
Environs == [VERSION : {"unset", "2.0.0"}, AZURE_SUBSCRIPTION_ID : {"sub-1", "sub-2"}]
BootEnviron == [VERSION |-> "unset", AZURE_SUBSCRIPTION_ID |-> "sub-1"]

\* Settings(): the fields, read from the environment as it is then
Settings(env) ==
    [version |-> IF env.VERSION = "unset" THEN "1.0.0" ELSE env.VERSION,
     azure_subscription_id |-> env.AZURE_SUBSCRIPTION_ID]

\* faulty variant: no cache, the environment is read at every call
get_settings_uncached == Settings(environ)

\* @lru_cache() get_settings(): the cached value once there is one; main.py
\* calls it when the module is loaded, so the cache is filled before any request
get_settings == IF settings # <<>> THEN settings[1] ELSE Settings(environ)

----------------------------------------------------------------------------
(* api/core/exceptions.py *)

HTTP_400_BAD_REQUEST == 400
HTTP_403_FORBIDDEN == 403
HTTP_404_NOT_FOUND == 404
HTTP_409_CONFLICT == 409
HTTP_422_UNPROCESSABLE_ENTITY == 422
HTTP_500_INTERNAL_SERVER_ERROR == 500
HTTP_503_SERVICE_UNAVAILABLE == 503

\* fastapi's HTTPException(status_code, detail)
HTTPException(status_code, detail) ==
    [cls |-> "HTTPException", status_code |-> status_code, detail |-> detail]

AzureAPIException(cls, status_code, detail, cid) ==
    [cls |-> cls, status_code |-> status_code, detail |-> detail, correlation_id |-> cid]

\* the subclasses of AzureAPIException
AzureAPIClasses ==
    {"AzureAPIException", "ResourceNotFoundError", "ResourceAlreadyExistsError",
     "AzureConnectionError", "ValidationError", "AzurePermissionError"}

TitleWord(w) ==
    CASE w = "resource" -> "Resource"
      [] w = "group" -> "Group"
      [] OTHER -> w

\* resource_type.title()
Title(s) == [i \in 1..Len(s) |-> TitleWord(s[i])]

ResourceNotFoundError(resource_name, resource_type, cid) ==
    AzureAPIException("ResourceNotFoundError", HTTP_404_NOT_FOUND,
                      Title(resource_type) \o <<resource_name, "not", "found">>, cid)

AzureConnectionError(detail, cid) ==
    AzureAPIException("AzureConnectionError", HTTP_503_SERVICE_UNAVAILABLE, detail, cid)

----------------------------------------------------------------------------
(* api/routers/resource_groups.py *)

RouteReturn(status, body, s) ==
    [tag |-> "return", status |-> status, body |-> body,
     fault |-> NoFault, calls |-> s.calls, logs |-> s.logs, store |-> s.store]
\* raise e, after the router logged l
RouteRaise(e, l, s) ==
    [tag |-> "raise", exc |-> e, fault |-> s.exc, calls |-> s.calls,
     logs |-> s.logs \o l, store |-> s.store]

\* a faulty variant: the count stops at one entry
ResourceGroupList_capped(resource_groups) ==
    [resource_groups |-> resource_groups,
     count |-> IF Len(resource_groups) > 1 THEN 1 ELSE Len(resource_groups)]

\* ResourceGroupList(resource_groups=resource_groups, count=len(resource_groups))
ResourceGroupList(resource_groups) ==
    [resource_groups |-> resource_groups, count |-> Len(resource_groups)]

list_resource_groups(c, f, st) ==
    LET s == AzureService_list_resource_groups(f, st)
    IN IF s.tag = "ok" THEN RouteReturn(200, ResourceGroupList(s.val), s)
       ELSE RouteRaise(AzureConnectionError(
                <<"Failed to retrieve resource groups from Azure">>, c),
                Log("error", "list_resource_groups"), s)

get_resource_group(name, c, f, m, st) ==
    LET s == AzureService_get_resource_group(name, f, m, st)
    IN IF s.tag = "ok" THEN RouteReturn(200, s.val, s)
       ELSE IF s.exc.cls = "ResourceNotFoundError"
       THEN RouteRaise(ResourceNotFoundError(name, <<"resource", "group">>, c), <<>>, s)
       ELSE RouteRaise(AzureConnectionError(
                <<"Failed to retrieve resource group", name, "from Azure">>, c),
                Log("error", "get_resource_group"), s)

create_resource_group(resource_group, c, f, st) ==
    LET s == AzureService_create_resource_group(resource_group, f, st)
    IN IF s.tag = "ok" THEN RouteReturn(201, s.val, s)
       ELSE IF \/ Contains(<<"already", "exists">>, Lower(s.exc.msg))
               \/ Contains(<<"conflict">>, Lower(s.exc.msg))
       THEN RouteRaise(HTTPException(HTTP_409_CONFLICT,
                <<"Resource group", resource_group.name, "already exists">>),
                Log("error", "create_resource_group"), s)
       ELSE RouteRaise(AzureConnectionError(
                <<"Failed to create resource group", resource_group.name>>, c),
                Log("error", "create_resource_group"), s)

update_resource_group(name, update_data, c, f1, m, f2, st) ==
    LET s == AzureService_update_resource_group(name, update_data, f1, m, f2, st)
    IN IF s.tag = "ok" THEN RouteReturn(200, s.val, s)
       ELSE IF s.exc.cls = "ResourceNotFoundError"
       THEN RouteRaise(ResourceNotFoundError(name, <<"resource", "group">>, c), <<>>, s)
       ELSE RouteRaise(AzureConnectionError(
                <<"Failed to update resource group", name>>, c),
                Log("error", "update_resource_group"), s)

delete_resource_group(name, c, f1, m, f2, st) ==
    LET s == AzureService_delete_resource_group(name, f1, m, f2, st)
    IN IF s.tag = "ok"
       THEN RouteReturn(202,
                [message |-> <<"Resource group", name, "deletion initiated">>,
                 note |-> <<"Deletion is asynchronous and may take several minutes to complete">>],
                s)
       ELSE IF s.exc.cls = "ResourceNotFoundError"
       THEN RouteRaise(ResourceNotFoundError(name, <<"resource", "group">>, c), <<>>, s)
       ELSE RouteRaise(AzureConnectionError(
                <<"Failed to delete resource group", name>>, c),
                Log("error", "delete_resource_group"), s)

----------------------------------------------------------------------------
(* api/routers/storage_accounts.py: no service method raises an            *)
(* HTTPException, so every failure takes the `except Exception` branch.    *)

\* StorageAccountList(storage_accounts=storage_accounts, count=len(storage_accounts))
StorageAccountList(storage_accounts) ==
    [storage_accounts |-> storage_accounts, count |-> Len(storage_accounts)]

list_storage_accounts(f, st) ==
    LET s == AzureService_list_storage_accounts(f, st)
    IN IF s.tag = "ok" THEN RouteReturn(200, StorageAccountList(s.val), s)
       ELSE RouteRaise(HTTPException(HTTP_500_INTERNAL_SERVER_ERROR,
                <<"Failed to list storage accounts:">> \o s.exc.msg),
                Log("error", "list_storage_accounts"), s)

get_storage_account(resource_group, name, f, m, st) ==
    LET s == AzureService_get_storage_account(resource_group, name, f, m, st)
    IN IF s.tag = "ok" THEN RouteReturn(200, s.val, s)
       ELSE IF Contains(<<"not", "found">>, Lower(s.exc.msg))
       THEN RouteRaise(HTTPException(HTTP_404_NOT_FOUND,
                <<"Storage account", name, "not found in resource group", resource_group>>),
                Log("error", "get_storage_account"), s)
       ELSE RouteRaise(HTTPException(HTTP_500_INTERNAL_SERVER_ERROR,
                <<"Failed to get storage account:">> \o s.exc.msg),
                Log("error", "get_storage_account"), s)

create_storage_account(storage_account, f, st) ==
    LET s == AzureService_create_storage_account(storage_account, f, st)
        error_msg == IF s.tag = "err" THEN Lower(s.exc.msg) ELSE <<>>
    IN IF s.tag = "ok" THEN RouteReturn(201, s.val, s)
       ELSE IF \/ Contains(<<"already", "exists">>, error_msg)
               \/ Contains(<<"conflict">>, error_msg)
       THEN RouteRaise(HTTPException(HTTP_409_CONFLICT,
                <<"Storage account", storage_account.name, "already exists">>),
                Log("error", "create_storage_account"), s)
       ELSE IF \/ Contains(<<"invalid">>, error_msg)
               \/ Contains(<<"bad", "request">>, error_msg)
       THEN RouteRaise(HTTPException(HTTP_400_BAD_REQUEST,
                <<"Invalid storage account configuration:">> \o s.exc.msg),
                Log("error", "create_storage_account"), s)
       ELSE RouteRaise(HTTPException(HTTP_500_INTERNAL_SERVER_ERROR,
                <<"Failed to create storage account:">> \o s.exc.msg),
                Log("error", "create_storage_account"), s)

update_storage_account(resource_group, name, update, f1, m, f2, st) ==
    LET s == AzureService_update_storage_account(resource_group, name, update, f1, m, f2, st)
    IN IF s.tag = "ok" THEN RouteReturn(200, s.val, s)
       ELSE IF Contains(<<"not", "found">>, Lower(s.exc.msg))
       THEN RouteRaise(HTTPException(HTTP_404_NOT_FOUND,
                <<"Storage account", name, "not found in resource group", resource_group>>),
                Log("error", "update_storage_account"), s)
       ELSE RouteRaise(HTTPException(HTTP_500_INTERNAL_SERVER_ERROR,
                <<"Failed to update storage account:">> \o s.exc.msg),
                Log("error", "update_storage_account"), s)

delete_storage_account(resource_group, name, f1, m, f2, st) ==
    LET s == AzureService_delete_storage_account(resource_group, name, f1, m, f2, st)
    IN IF s.tag = "ok"
       THEN RouteReturn(200,
                [message |-> <<"Storage account", name, "deleted successfully">>,
                 resource_group |-> resource_group, name |-> name], s)
       ELSE IF Contains(<<"not", "found">>, Lower(s.exc.msg))
       THEN RouteRaise(HTTPException(HTTP_404_NOT_FOUND,
                <<"Storage account", name, "not found in resource group", resource_group>>),
                Log("error", "delete_storage_account"), s)
       ELSE RouteRaise(HTTPException(HTTP_500_INTERNAL_SERVER_ERROR,
                <<"Failed to delete storage account:">> \o s.exc.msg),
                Log("error", "delete_storage_account"), s)

----------------------------------------------------------------------------
(* api/models/resource_group.py and the framework's body validation *)

\* pydantic reports the rejected fields in the order the model declares them:
\* name (min_length), then location (required)
ValidationErrors(k, body) ==
    (IF body.name = ""
     THEN << [loc |-> <<"body", "name">>, msg |-> <<"String should have at least",
                  IF k = "rg" THEN "1 character" ELSE "3 characters">>,
              type |-> "string_too_short"] >>
     ELSE <<>>)
    \o
    (IF body.location.ty = "NoneType"
     THEN << [loc |-> <<"body", "location">>, msg |-> <<"Field required">>,
              type |-> "missing"] >>
     ELSE <<>>)

RequestValidationError(errors) == [cls |-> "RequestValidationError", errors |-> errors]

\* ErrorDetail(field=..., message=..., code=...)
ErrorDetail(field, message, code) ==
    [field |-> field, message |-> message, code |-> code]

\* ErrorResponse(...): details defaults to None, timestamp to datetime.utcnow()
ErrorResponse(error, message, details, cid) ==
    [error |-> PyStr(<<error>>), message |-> PyStr(message), details |-> details,
     correlation_id |-> cid, timestamp |-> PyDatetime]

\* BaseModel.model_dump(): a dict of every field, None included, values as they are
model_dump(m) == [key \in DOMAIN m |-> m[key]]

----------------------------------------------------------------------------
(* api/middleware/error_handler.py *)

\* the types json.dumps encodes
JsonTypes == {"NoneType", "str", "list", "dict", "int", "float", "bool"}

Response(status_code, media, content) ==
    [tag |-> "response", status |-> status_code, media |-> media,
     headers |-> <<>>, body |-> content]
Raised(e) == [tag |-> "raise", exc |-> e]

\* faulty variant: a constructor that renders any content
JSONResponse_lenient(status_code, content) ==
    Response(status_code, "application/json", content)

\* JSONResponse(status_code=..., content=...): the constructor renders the
\* content with json.dumps, which raises TypeError on a value it cannot encode
JSONResponse(status_code, content) ==
    IF \A key \in DOMAIN content : content[key].ty \in JsonTypes
    THEN Response(status_code, "application/json", content)
    ELSE Raised([cls |-> "TypeError", msg |-> <<"Object of type datetime is not JSON serializable">>])

Unknown == PyStr(<<"u", "n", "k", "n", "o", "w", "n">>)

\* what a handler did: the level it logged at, the envelope it built and what
\* its JSONResponse call gave
Handled(name, level, status_code, content) ==
    [handler |-> name, level |-> level, status |-> status_code, content |-> content,
     out |-> JSONResponse(status_code, content)]

azure_exception_handler(exc, c) ==
    Handled("azure_exception_handler", "warning", exc.status_code,
            model_dump(ErrorResponse(exc.cls, exc.detail, PyNone,
                                     PyOr(exc.correlation_id, PyOr(c, Unknown)))))

\* ".".join(str(loc) for loc in error["loc"])
JoinDots(loc) == IF Len(loc) = 2 THEN loc[1] \o "." \o loc[2] ELSE loc[1]

validation_exception_handler(exc, c) ==
    LET error_details ==
            [i \in 1..Len(exc.errors) |->
                ErrorDetail(JoinDots(exc.errors[i].loc), exc.errors[i].msg,
                            exc.errors[i].type)]
    IN Handled("validation_exception_handler", "warning",
               HTTP_422_UNPROCESSABLE_ENTITY,
               model_dump(ErrorResponse("ValidationError", <<"Request validation failed">>,
                                        PyList(error_details), PyOr(c, Unknown))))

http_exception_handler(exc, c) ==
    Handled("http_exception_handler", "warning", exc.status_code,
            model_dump(ErrorResponse("HTTPException", exc.detail, PyNone,
                                     PyOr(c, Unknown))))

general_exception_handler(exc, c) ==
    Handled("general_exception_handler", "error", HTTP_500_INTERNAL_SERVER_ERROR,
            model_dump(ErrorResponse("InternalServerError", <<"An unexpected error occurred">>,
                                     PyNone, PyOr(c, Unknown))))

----------------------------------------------------------------------------
(* main.py: the application's layers.  Starlette puts the handler           *)
(* registered for Exception in the outermost ServerErrorMiddleware, then    *)
(* CorrelationMiddleware, then the CORS middleware, then the                *)
(* ExceptionMiddleware with the other three handlers, then the routers.     *)

NoHeaders == [x_correlation_id |-> PyNone, x_process_time |-> PyNone]

\* the inner ExceptionMiddleware: the handler registered for the nearest class
\* of the exception, or the exception again when there is none
ExceptionMiddleware(exc, c) ==
    LET h == IF exc.cls \in AzureAPIClasses THEN azure_exception_handler(exc, c)
             ELSE IF exc.cls = "RequestValidationError"
             THEN validation_exception_handler(exc, c)
             ELSE http_exception_handler(exc, c)
    IN IF exc.cls \in AzureAPIClasses \cup {"RequestValidationError", "HTTPException"}
       THEN [built |-> <<h>>, out |-> h.out]
       ELSE [built |-> <<>>, out |-> Raised(exc)]

\* get_azure_service: AzureService(settings) builds the credential and the two
\* clients, and re-raises what that raises
get_azure_service(fails, st) ==
    IF fails
    THEN [tag |-> "raise",
          exc |-> [cls |-> "ValueError", msg |-> <<"Failed to create Azure resource client">>],
          fault |-> NoFault, calls |-> <<>>,
          logs |-> Log("error", "AzureService._create_resource_client"), store |-> st]
    ELSE [tag |-> "ok", exc |-> NoFault, calls |-> <<>>, logs |-> <<>>, store |-> st]

\* api/routers/health.py

\* AzureService.test_connection: lists the resource groups and reports
\* whether that worked; it raises nothing
AzureService_test_connection(f, st) ==
    LET r == sdk_list("rg", f, st)
    IN IF r.tag = "err"
       THEN [tag |-> "ok", val |-> FALSE, exc |-> NoFault, calls |-> <<"list">>,
             logs |-> Log("error", "AzureService.test_connection"), store |-> st]
       ELSE SvcOk(TRUE, <<"list">>, st)

\* faulty variant: any probe result counts as healthy
HealthStatus_always(azure_connection) == "healthy"

\* "healthy" if azure_connection else "degraded"
HealthStatus(azure_connection) == IF azure_connection THEN "healthy" ELSE "degraded"

\* HealthCheck(status=..., version=..., azure_connection=...)
HealthCheck(status, version, azure_connection) ==
    [status |-> status, timestamp |-> PyDatetime, version |-> version,
     azure_connection |-> azure_connection]

\* GET /health: AzureService(settings) is built inside the try block, so its
\* failure is caught like any other
health_check(settings_, ctor, f, st) ==
    LET built_ == get_azure_service(ctor, st)
        s == AzureService_test_connection(f, st)
    IN IF built_.tag = "raise"
       THEN RouteReturn(200, HealthCheck("unhealthy", settings_.version, FALSE),
                [calls |-> <<>>, logs |-> built_.logs \o Log("error", "health_check"),
                 store |-> st])
       ELSE RouteReturn(200, HealthCheck(HealthStatus(s.val), settings_.version, s.val), s)

\* the route function the request is matched to
Endpoint(q, c, sc, st) ==
    IF q.kind = "rg"
    THEN CASE q.op = "list" -> list_resource_groups(c, sc.f1, st)
           [] q.op = "get" -> get_resource_group(q.name, c, sc.f1, sc.m, st)
           [] q.op = "create" -> create_resource_group(q.body, c, sc.f1, st)
           [] q.op = "update" -> update_resource_group(q.name, q.body, c, sc.f1, sc.m, sc.f2, st)
           [] q.op = "delete" -> delete_resource_group(q.name, c, sc.f1, sc.m, sc.f2, st)
    ELSE CASE q.op = "list" -> list_storage_accounts(sc.f1, st)
           [] q.op = "get" -> get_storage_account(SaGroup, q.name, sc.f1, sc.m, st)
           [] q.op = "create" -> create_storage_account(q.body, sc.f1, st)
           [] q.op = "update" -> update_storage_account(SaGroup, q.name, q.body, sc.f1, sc.m, sc.f2, st)
           [] q.op = "delete" -> delete_storage_account(SaGroup, q.name, sc.f1, sc.m, sc.f2, st)

\* FastAPI's request handler, once the dependency `dep` is solved: the body is
\* validated, then the route function runs
RunEndpoint(q, c, sc, st, dep, errors) ==
    IF dep.tag = "raise" THEN dep
    ELSE IF errors # <<>> THEN RouteRaise(RequestValidationError(errors), <<>>, dep)
    ELSE Endpoint(q, c, sc, st)

\* FastAPI's request handler: the dependencies are solved first
RouteHandler(q, c, sc, st) ==
    IF q.kind = "health" THEN health_check(get_settings, sc.ctor, sc.f1, st)
    ELSE RunEndpoint(q, c, sc, st, get_azure_service(sc.ctor, st),
                     IF q.op = "create" THEN ValidationErrors(q.kind, q.body) ELSE <<>>)

\* the entries the handlers of `built` logged
HandlerLogs(built_) == [i \in 1..Len(built_) |-> [level |-> built_[i].level, at |-> built_[i].handler]]

\* a returned value is serialised as the response; a raised exception goes to
\* the ExceptionMiddleware
Answer(routed, caught) ==
    [out |-> IF routed.tag = "raise" THEN caught.out
             ELSE [Response(routed.status, "application/json", routed.body)
                      EXCEPT !.headers = NoHeaders],
     built |-> IF routed.tag = "raise" THEN caught.built ELSE <<>>,
     logs |-> routed.logs \o (IF routed.tag = "raise" THEN HandlerLogs(caught.built) ELSE <<>>),
     fault |-> routed.fault, calls |-> routed.calls, store |-> routed.store]

Catch(routed, c) ==
    Answer(routed, IF routed.tag = "raise" THEN ExceptionMiddleware(routed.exc, c)
                   ELSE [built |-> <<>>, out |-> NoOutcome])

\* call_next(request): everything inside CorrelationMiddleware
call_next(q, c, sc, st) == Catch(RouteHandler(q, c, sc, st), c)

\* what happens to the backend calls of one request: the service cannot be
\* built, or the first call fails, or the first call answers from the store:
\* it reports the name missing, in wording m, or it succeeds and the second
\* call, if the operation makes one, fails or not
Scenarios(q, st) ==
    { [ctor |-> TRUE, f1 |-> NoFault, f2 |-> NoFault, m |-> <<>>] }
    \cup { [ctor |-> FALSE, f1 |-> f, f2 |-> NoFault, m |-> <<>>] : f \in InjectedFaults }
    \cup IF q.op \in {"get", "update", "delete"} /\ ~st[q.kind][q.name].present
         THEN { [ctor |-> FALSE, f1 |-> NoFault, f2 |-> NoFault, m |-> m] : m \in Messages }
         ELSE { [ctor |-> FALSE, f1 |-> NoFault, f2 |-> f, m |-> <<>>] :
                  f \in IF q.op \in {"update", "delete"}
                        THEN InjectedFaults \cup {NoFault} ELSE {NoFault} }

----------------------------------------------------------------------------
(* State machine *)

\* no call of _extract_resource_group_from_id under way
NoExtract == [resource_id |-> PyNone, called |-> FALSE, result |-> <<>>]

NoRequest == [kind |-> "none", op |-> "none", name |-> "", header |-> PyNone, body |-> NoBody]

Init ==
    /\ pc = [r \in Tasks |-> "idle"]
    /\ req = [r \in Tasks |-> NoRequest]
    /\ corr = [r \in Tasks |-> PyNone]
    /\ ctx = [r \in Tasks |-> PyNone]
    /\ gen = [r \in Tasks |-> FALSE]
    /\ calls = [r \in Tasks |-> <<>>]
    /\ inner = [r \in Tasks |-> NoOutcome]
    /\ built = [r \in Tasks |-> <<>>]
    /\ fault = [r \in Tasks |-> NoFault]
    /\ logs = [r \in Tasks |-> <<>>]
    /\ resp = [r \in Tasks |-> NoOutcome]
    /\ running = "none"
    /\ store \in Stores
    /\ environ = BootEnviron
    /\ settings = <<Settings(BootEnviron)>>
    /\ extract = NoExtract

\* a faulty variant: any header that is present is used, the empty one too
ExtractOrGenerate_present(header, u) ==
    IF header.ty # "NoneType" THEN header ELSE generate_correlation_id(u)

\* request.headers.get("X-Correlation-ID") or generate_correlation_id()
ExtractOrGenerate(header, u) ==
    IF Truthy(header) THEN header ELSE generate_correlation_id(u)

\* a faulty variant: one variable shared by the whole process
ContextSet_shared(c, r, v) == [t \in DOMAIN c |-> v]

\* correlation_id.set(v) in the context of task r: a ContextVar is set in the
\* context of the running task only
ContextSet(c, r, v) == [c EXCEPT ![r] = v]

\* api/middleware/correlation.py, dispatch up to call_next: a request arrives
\* on a fresh task, whose context holds no correlation id yet
Start(r, q, u) ==
    LET header == q.header
        corr_id == ExtractOrGenerate(header, u)
    IN /\ pc[r] = "idle"
       /\ running = "none"
       /\ pc' = [pc EXCEPT ![r] = "started"]
       /\ req' = [req EXCEPT ![r] = q]
       /\ corr' = [corr EXCEPT ![r] = corr_id]
       /\ ctx' = ContextSet(ctx, r, corr_id)
       /\ gen' = [gen EXCEPT ![r] = ~Truthy(header)]
       /\ calls' = [calls EXCEPT ![r] = <<>>]
       /\ inner' = [inner EXCEPT ![r] = NoOutcome]
       /\ built' = [built EXCEPT ![r] = <<>>]
       /\ fault' = [fault EXCEPT ![r] = NoFault]
       /\ logs' = [logs EXCEPT ![r] = <<>>]
       /\ resp' = [resp EXCEPT ![r] = NoOutcome]
       /\ UNCHANGED <<running, store, environ, settings, extract>>

\* response = await call_next(request)
Dispatched(r, done) ==
    /\ pc' = [pc EXCEPT ![r] = "dispatched"]
    /\ inner' = [inner EXCEPT ![r] = done.out]
    /\ built' = [built EXCEPT ![r] = done.built]
    /\ fault' = [fault EXCEPT ![r] = done.fault]
    /\ logs' = [logs EXCEPT ![r] = done.logs]
    /\ calls' = [calls EXCEPT ![r] = done.calls]
    /\ store' = done.store
    /\ UNCHANGED <<req, corr, ctx, gen, resp, environ, settings, extract>>

\* the body of the request is valid, so that its route function runs
ValidBody(q) == q.op = "create" => ValidationErrors(q.kind, q.body) = <<>>

\* the body is valid, the service is built, and the route function is in its
\* first backend call: a synchronous call, which keeps the thread
Call(r) ==
    /\ pc[r] = "started"
    /\ running = "none"
    /\ ValidBody(req[r])
    /\ pc' = [pc EXCEPT ![r] = "calling"]
    /\ running' = r
    /\ UNCHANGED <<req, corr, ctx, gen, calls, inner, built, fault, logs, resp, store, environ, settings, extract>>

\* call_next returns or raises: straight from the start when the request makes
\* no backend call, else out of its backend calls, which frees the thread
Dispatch(r, sc) ==
    /\ pc[r] \in {"started", "calling"}
    /\ IF sc.ctor \/ ~ValidBody(req[r])
       THEN pc[r] = "started" /\ running = "none"
       ELSE pc[r] = "calling" /\ running = r
    /\ running' = "none"
    /\ Dispatched(r, call_next(req[r], ctx[r], sc, store))

\* the server's own answer when the application raises: 500, text/plain
ServerFallback ==
    [Response(HTTP_500_INTERNAL_SERVER_ERROR, "text/plain", [text |-> <<"Internal Server Error">>])
        EXCEPT !.headers = NoHeaders]

\* dispatch after call_next.  A response gets the two headers.  An exception is
\* logged and raised again; ServerErrorMiddleware hands it to
\* general_exception_handler and sends what that returns, and when that raises
\* too the server sends its fallback.
Finish(r) ==
    /\ pc[r] = "dispatched"
    /\ running = "none"
    /\ IF inner[r].tag = "response"
       THEN /\ resp' = [resp EXCEPT ![r] =
                   [inner[r] EXCEPT !.headers =
                       [x_correlation_id |-> corr[r], x_process_time |-> PyStr(<<"elapsed">>)]]]
            /\ pc' = [pc EXCEPT ![r] = "completed"]
            /\ UNCHANGED <<built, logs>>
       ELSE LET h == general_exception_handler(inner[r].exc, ctx[r])
            IN /\ built' = [built EXCEPT ![r] = Append(@, h)]
               /\ logs' = [logs EXCEPT ![r] =
                      @ \o Log("error", "CorrelationMiddleware.dispatch")
                        \o HandlerLogs(<<h>>)]
               /\ resp' = [resp EXCEPT ![r] =
                      IF h.out.tag = "response"
                      THEN [h.out EXCEPT !.headers = NoHeaders]
                      ELSE ServerFallback]
               /\ pc' = [pc EXCEPT ![r] = "failed"]
    /\ UNCHANGED <<req, corr, ctx, gen, calls, inner, fault, running, store, environ, settings, extract>>

\* the backend finishes a deletion that begin_delete started
DeletionCompletes(n) ==
    /\ store.rg[n].deleting
    /\ store' = [store EXCEPT !.rg[n] = Absent]
    /\ UNCHANGED <<pc, req, corr, ctx, gen, calls, inner, built, fault, logs, resp, running, environ, settings, extract>>

\* the environment of the process changes under it
EnvironChanges(env) ==
    /\ env # environ
    /\ environ' = env
    /\ UNCHANGED <<pc, req, corr, ctx, gen, calls, inner, built, fault, logs, resp, running,
                   store, settings, extract>>

\* the request is over: its task ends, and its context with it
Close(r) ==
    /\ pc[r] \in {"completed", "failed"}
    /\ running = "none"
    /\ pc' = [pc EXCEPT ![r] = "idle"]
    /\ req' = [req EXCEPT ![r] = NoRequest]
    /\ corr' = [corr EXCEPT ![r] = PyNone]
    /\ ctx' = [ctx EXCEPT ![r] = PyNone]
    /\ gen' = [gen EXCEPT ![r] = FALSE]
    /\ calls' = [calls EXCEPT ![r] = <<>>]
    /\ inner' = [inner EXCEPT ![r] = NoOutcome]
    /\ built' = [built EXCEPT ![r] = <<>>]
    /\ fault' = [fault EXCEPT ![r] = NoFault]
    /\ logs' = [logs EXCEPT ![r] = <<>>]
    /\ resp' = [resp EXCEPT ![r] = NoOutcome]
    /\ UNCHANGED <<running, store, environ, settings, extract>>

\* the requests explored: any of them, and while a deletion is in progress
\* those that list, get or delete resource groups
Arrivals(st) ==
    IF \E n \in NamesOf("rg") : st.rg[n].deleting
    THEN { q \in Requests : q.kind = "rg" /\ q.body = NoBody }
    ELSE Requests

\* the inputs of an action are drawn only where its task is at that step
Next ==
    \/ \E r \in ActiveTasks :
           \/ pc[r] = "idle" /\ \E q \in Arrivals(store) : \E u \in Uuids : Start(r, q, u)
           \/ Call(r)
           \/ pc[r] \in {"started", "calling"}
                 /\ \E sc \in Scenarios(req[r], store) : Dispatch(r, sc)
           \/ Finish(r)
           \/ Close(r)
    \/ \E n \in NamesOf("rg") : DeletionCompletes(n)

Spec == Init /\ [][Next]_vars

----------------------------------------------------------------------------
(* Two requests in flight at once: both tasks take requests, drawn from a  *)
(* few reads with a few backend behaviours.                                 *)

ConcRequests ==
    { [kind |-> "rg", op |-> "get", name |-> "rg1", header |-> PyStr(<<"c", "1">>), body |-> NoBody],
      [kind |-> "rg", op |-> "get", name |-> "rg1", header |-> PyNone, body |-> NoBody],
      [kind |-> "sa", op |-> "get", name |-> "sa1", header |-> PyNone, body |-> NoBody],
      [kind |-> "sa", op |-> "list", name |-> "", header |-> PyNone, body |-> NoBody] }

ConcFaults == {NoFault, SdkError("ServiceRequestError", "transient", <<"connection", "timed", "out">>)}

ConcScenarios(q, st) ==
    { sc \in Scenarios(q, st) :
        sc.f1 \in ConcFaults /\ sc.f2 = NoFault /\ sc.m \in {<<>>, <<"was", "Not", "Found">>} }

\* the backend holds nothing, or every name
ConcStores ==
    { st \in Stores :
        \/ \A k \in Kinds : \A n \in NamesOf(k) : st[k][n] = Absent
        \/ \A k \in Kinds : \A n \in NamesOf(k) : st[k][n] = Entity(Location, EmptyTags) }

InitConc ==
    /\ pc = [r \in Tasks |-> "idle"]
    /\ req = [r \in Tasks |-> NoRequest]
    /\ corr = [r \in Tasks |-> PyNone]
    /\ ctx = [r \in Tasks |-> PyNone]
    /\ gen = [r \in Tasks |-> FALSE]
    /\ calls = [r \in Tasks |-> <<>>]
    /\ inner = [r \in Tasks |-> NoOutcome]
    /\ built = [r \in Tasks |-> <<>>]
    /\ fault = [r \in Tasks |-> NoFault]
    /\ logs = [r \in Tasks |-> <<>>]
    /\ resp = [r \in Tasks |-> NoOutcome]
    /\ running = "none"
    /\ store \in ConcStores
    /\ environ = BootEnviron
    /\ settings = <<Settings(BootEnviron)>>
    /\ extract = NoExtract

NextConc ==
    \E r \in Tasks :
        \/ pc[r] = "idle" /\ \E q \in ConcRequests : \E u \in Uuids : Start(r, q, u)
        \/ Call(r)
        \/ pc[r] \in {"started", "calling"}
              /\ \E sc \in ConcScenarios(req[r], store) : Dispatch(r, sc)
        \/ Finish(r)
        \/ Close(r)

SpecConc == InitConc /\ [][NextConc]_vars

----------------------------------------------------------------------------
(* Health checks while the environment of the process changes. *)

NextSettings ==
    \/ \E r \in ActiveTasks :
           \/ pc[r] = "idle" /\ \E q \in HealthRequests : \E u \in Uuids : Start(r, q, u)
           \/ Call(r)
           \/ pc[r] \in {"started", "calling"}
                 /\ \E sc \in ConcScenarios(req[r], store) : Dispatch(r, sc)
           \/ Finish(r)
           \/ Close(r)
    \/ \E env \in Environs : EnvironChanges(env)

SpecSettings == InitConc /\ [][NextSettings]_vars

----------------------------------------------------------------------------
(* _extract_resource_group_from_id applied to any resource id. *)

InitExtract ==
    /\ pc = [r \in Tasks |-> "idle"]
    /\ req = [r \in Tasks |-> NoRequest]
    /\ corr = [r \in Tasks |-> PyNone]
    /\ ctx = [r \in Tasks |-> PyNone]
    /\ gen = [r \in Tasks |-> FALSE]
    /\ calls = [r \in Tasks |-> <<>>]
    /\ inner = [r \in Tasks |-> NoOutcome]
    /\ built = [r \in Tasks |-> <<>>]
    /\ fault = [r \in Tasks |-> NoFault]
    /\ logs = [r \in Tasks |-> <<>>]
    /\ resp = [r \in Tasks |-> NoOutcome]
    /\ running = "none"
    /\ store \in {st \in ConcStores : \A n \in NamesOf("sa") : ~st.sa[n].present}
    /\ environ = BootEnviron
    /\ settings = <<Settings(BootEnviron)>>
    /\ extract \in {[resource_id |-> id, called |-> FALSE, result |-> <<>>] : id \in ResourceIds}

ExtractCalled ==
    /\ ~extract.called
    /\ extract' = [extract EXCEPT !.called = TRUE,
                                  !.result = extract_resource_group_from_id(extract.resource_id)]
    /\ UNCHANGED <<pc, req, corr, ctx, gen, calls, inner, built, fault, logs, resp, running,
                   store, environ, settings>>

NextExtract == ExtractCalled

SpecExtract == InitExtract /\ [][NextExtract]_vars

----------------------------------------------------------------------------
(* The exception handlers on their own: any exception they are registered  *)
(* for, carrying any correlation id, under any value of the context        *)
(* variable, the one of a task no middleware has set it in included.       *)

ContextValues == {PyNone, PyStr(<<>>), PyStr(<<"c", "1">>)}
CarriedIds == {PyNone, PyStr(<<>>), PyStr(<<"e", "9">>)}

RaisedExceptions ==
    { ResourceNotFoundError("rg1", <<"resource", "group">>, cid) : cid \in CarriedIds }
    \cup { AzureConnectionError(<<"Failed to list resource groups">>, cid) : cid \in CarriedIds }
    \cup { HTTPException(HTTP_404_NOT_FOUND, <<"Storage account", "sa1", "not found">>),
           RequestValidationError(ValidationErrors("rg", NoBody)),
           [cls |-> "TypeError", msg |-> <<"Object of type datetime is not JSON serializable">>] }

InitHandlers ==
    /\ pc = [r \in Tasks |-> "idle"]
    /\ req = [r \in Tasks |-> NoRequest]
    /\ corr = [r \in Tasks |-> PyNone]
    /\ ctx \in [Tasks -> ContextValues]
    /\ gen = [r \in Tasks |-> FALSE]
    /\ calls = [r \in Tasks |-> <<>>]
    /\ inner = [r \in Tasks |-> NoOutcome]
    /\ built = [r \in Tasks |-> <<>>]
    /\ fault = [r \in Tasks |-> NoFault]
    /\ logs = [r \in Tasks |-> <<>>]
    /\ resp = [r \in Tasks |-> NoOutcome]
    /\ running = "none"
    /\ store \in ConcStores
    /\ environ = BootEnviron
    /\ settings = <<Settings(BootEnviron)>>
    /\ extract = NoExtract

\* the exception exc reaches the handler registered for its class, in task r
HandleException(r, exc) ==
    LET caught == ExceptionMiddleware(exc, ctx[r])
    IN /\ inner[r] = NoOutcome
       /\ inner' = [inner EXCEPT ![r] = Raised(exc)]
       /\ built' = [built EXCEPT ![r] =
              IF caught.built # <<>> THEN caught.built
              ELSE <<general_exception_handler(exc, ctx[r])>>]
       /\ logs' = [logs EXCEPT ![r] = HandlerLogs(built'[r])]
       /\ UNCHANGED <<pc, req, corr, ctx, gen, calls, fault, resp, running, store,
                      environ, settings, extract>>

NextHandlers == \E r \in Tasks : \E exc \in RaisedExceptions : HandleException(r, exc)

SpecHandlers == InitHandlers /\ [][NextHandlers]_vars

----------------------------------------------------------------------------
(* What a client and a handler can observe *)

\* the request of task r has been answered
Answered(r) == pc[r] \in {"completed", "failed"}

\* call_next has run for the request of task r
Routed(r) == pc[r] \in {"dispatched", "completed", "failed"}

\* a response whose body is a JSON error envelope
IsEnvelope(rsp) ==
    /\ rsp.media = "application/json"
    /\ {"error", "message", "correlation_id", "timestamp"} \subseteq DOMAIN rsp.body

\* the ids generate_correlation_id can return
GeneratedIds == {generate_correlation_id(u) : u \in Uuids}

\* the not-found and the conflict kinds of the taxonomy
NotFoundKinds == {PyStr(<<"NotFound">>), PyStr(<<"ResourceNotFoundError">>)}
AlreadyExistsKinds == {PyStr(<<"AlreadyExists">>), PyStr(<<"ResourceAlreadyExistsError">>)}

\* the entries of a successful list response
ListItems(r) ==
    IF req[r].kind = "rg" THEN resp[r].body.resource_groups
    ELSE resp[r].body.storage_accounts

----------------------------------------------------------------------------
(* Properties *)

\* C1: every successful list response, of resource groups and of storage
\* accounts, has a count equal to the number of entries it returns, the empty
\* listing included.
C1_ListCountEqualsLength ==
    \A r \in Tasks :
        (Answered(r) /\ req[r].op = "list" /\ resp[r].status = 200)
            => resp[r].body.count = Len(ListItems(r))

\* a resource-group listing of two or more entries has been answered
C1_Witness ==
    \E r \in Tasks :
        /\ Answered(r) /\ req[r].op = "list" /\ req[r].kind = "rg"
        /\ resp[r].status = 200
        /\ Len(ListItems(r)) >= 2

\* C2: every error response carries an error envelope whose correlation_id is
\* non-empty and equals the X-Correlation-ID header when the request had one.
C2_ErrorEnvelopeCorrelationId ==
    \A r \in Tasks :
        (Answered(r) /\ resp[r].status >= 400)
            => /\ IsEnvelope(resp[r])
               /\ Truthy(resp[r].body.correlation_id)
               /\ req[r].header.ty # "NoneType"
                    => resp[r].body.correlation_id = req[r].header

\* C3: for a get, update or delete on a name the backend reports missing, the
\* response the exception handler builds is a 404 of the not-found kind, for
\* both resources, all three operations and any wording of the failure.
C3_MissingIs404NotFound ==
    \A r \in Tasks :
        (Routed(r) /\ req[r].op \in {"get", "update", "delete"}
                   /\ fault[r].reason = "missing")
            => /\ built[r] # <<>>
               /\ built[r][1].status = HTTP_404_NOT_FOUND
               /\ built[r][1].content.error \in NotFoundKinds

\* C4: for a create the backend reports as conflicting, the response the
\* exception handler builds is a 409 whose envelope has the kind AlreadyExists,
\* a message containing the requested name, and the request's correlation id.
C4_ConflictIs409AlreadyExists ==
    \A r \in Tasks :
        (Routed(r) /\ req[r].op = "create" /\ fault[r].reason = "conflict")
            => /\ built[r] # <<>>
               /\ built[r][1].status = HTTP_409_CONFLICT
               /\ built[r][1].content.error \in AlreadyExistsKinds
               /\ Contains(<<req[r].body.name>>, built[r][1].content.message.val)
               /\ built[r][1].content.correlation_id = corr[r]

\* C5: every exception handler that is reached returns a JSON response with
\* error, message, correlation_id and timestamp and the mapped status code, and
\* every error response a client receives is such an envelope.
C5_HandlersReturnEnvelope ==
    \A r \in Tasks :
        /\ \A i \in DOMAIN built[r] :
              /\ built[r][i].out.tag = "response"
              /\ built[r][i].out.status = built[r][i].status
              /\ IsEnvelope(built[r][i].out)
        /\ (Answered(r) /\ resp[r].status >= 400) => IsEnvelope(resp[r])

\* C6: an error envelope has no details key when there are no field errors,
\* and a non-empty details list for a validation failure.
C6_DetailsAbsentOrNonEmpty ==
    \A r \in Tasks :
        \A i \in DOMAIN built[r] :
            IF built[r][i].handler = "validation_exception_handler"
            THEN /\ "details" \in DOMAIN built[r][i].content
                 /\ built[r][i].content.details.ty = "list"
                 /\ Len(built[r][i].content.details.val) > 0
            ELSE "details" \notin DOMAIN built[r][i].content

\* C7: every response carries X-Correlation-ID with the request's correlation
\* id, error responses and the catch-all 500 included, and every success
\* response carries X-Process-Time as well.
C7_EveryResponseHasCorrelationHeader ==
    \A r \in Tasks :
        Answered(r)
            => /\ resp[r].headers.x_correlation_id = corr[r]
               /\ resp[r].status < 400 => resp[r].headers.x_process_time.ty = "str"

\* C8 as amended: a non-empty X-Correlation-ID header is used verbatim as the
\* request's correlation id and no id is generated; an id is generated when
\* the header is absent or empty.
C8_NonEmptyHeaderVerbatim ==
    \A r \in Tasks :
        pc[r] # "idle"
            => /\ Truthy(req[r].header)
                    => (corr[r] = req[r].header /\ ctx[r] = req[r].header /\ ~gen[r])
               /\ ~Truthy(req[r].header)
                    => (gen[r] /\ corr[r] \in GeneratedIds /\ ctx[r] = corr[r])
               /\ pc[r] = "completed" => resp[r].headers.x_correlation_id = corr[r]

\* a request with a non-empty header has been answered under that id
C8_Witness ==
    \E r \in Tasks :
        /\ pc[r] = "completed"
        /\ req[r].header = PyStr(<<"c", "1">>)
        /\ resp[r].headers.x_correlation_id = PyStr(<<"c", "1">>)
        /\ ~gen[r]

\* C8 as stated: any header that is present, the empty string included, is
\* used verbatim and no id is generated; an id is generated only when the
\* header is absent.
C8_AnyHeaderVerbatim ==
    \A r \in Tasks :
        pc[r] # "idle"
            => /\ req[r].header.ty # "NoneType"
                    => (corr[r] = req[r].header /\ ~gen[r])
               /\ gen[r] => req[r].header.ty = "NoneType"

\* C9: the body an exception handler builds for a 500 or a 503 holds nothing
\* of the backend's exception text, on resource-group and storage-account
\* endpoints alike.
C9_ServerErrorBodyHidesBackendText ==
    \A r \in Tasks :
        \A i \in DOMAIN built[r] :
            built[r][i].status \in {HTTP_500_INTERNAL_SERVER_ERROR, HTTP_503_SERVICE_UNAVAILABLE}
                => \A m \in Messages : ~Contains(m, built[r][i].content.message.val)

\* C10: a create request whose body fails validation is answered with 422 and
\* a validation envelope holding one field error per rejected field, in the
\* validator's order, each naming its field, and invokes no backend operation.
C10_InvalidCreateIs422 ==
    \A r \in Tasks :
        (Answered(r) /\ req[r].op = "create"
                     /\ ValidationErrors(req[r].kind, req[r].body) # <<>>)
            => /\ calls[r] = <<>>
               /\ resp[r].status = HTTP_422_UNPROCESSABLE_ENTITY
               /\ IsEnvelope(resp[r])
               /\ LET errors == ValidationErrors(req[r].kind, req[r].body)
                      details == resp[r].body.details.val
                  IN /\ Len(details) = Len(errors)
                     /\ \A i \in 1..Len(errors) :
                            details[i].field = JoinDots(errors[i].loc)

\* the permission kind of the taxonomy
PermissionKinds == {PyStr(<<"PermissionDenied">>), PyStr(<<"AzurePermissionError">>)}

\* the failure of the request of task r came from a backend call that raised
\* something other than the typed not-found error
BackendFailed(r) == Routed(r) /\ fault[r].reason \in {"conflict", "forbidden", "transient"}

\* the substrings the classification looks for, in s.lower()
Recognised(s) ==
    \/ Contains(<<"not", "found">>, Lower(s))
    \/ Contains(<<"already", "exists">>, Lower(s))
    \/ Contains(<<"conflict">>, Lower(s))
    \/ Contains(<<"invalid">>, Lower(s))
    \/ Contains(<<"bad", "request">>, Lower(s))

\* the status the fixed priority gives a failure by its message
ClassifyByMessage(s) ==
    IF Contains(<<"not", "found">>, Lower(s)) THEN HTTP_404_NOT_FOUND
    ELSE IF Contains(<<"already", "exists">>, Lower(s)) \/ Contains(<<"conflict">>, Lower(s))
    THEN HTTP_409_CONFLICT
    ELSE IF Contains(<<"invalid">>, Lower(s)) \/ Contains(<<"bad", "request">>, Lower(s))
    THEN HTTP_422_UNPROCESSABLE_ENTITY
    ELSE HTTP_500_INTERNAL_SERVER_ERROR

\* C11: when the backend reports an authorization failure, on any operation,
\* the response the exception handler builds is a 403 of the PermissionDenied
\* kind.
C11_ForbiddenIs403PermissionDenied ==
    \A r \in Tasks :
        (Routed(r) /\ fault[r].reason = "forbidden")
            => /\ built[r] # <<>>
               /\ built[r][1].status = HTTP_403_FORBIDDEN
               /\ built[r][1].content.error \in PermissionKinds

\* C12: on every endpoint, a backend failure that is no tagged domain error
\* and whose message holds none of the recognised substrings is answered with
\* a 500.
C12_UnrecognisedIs500 ==
    \A r \in Tasks :
        (BackendFailed(r) /\ ~Recognised(fault[r].msg))
            => /\ built[r] # <<>>
               /\ built[r][1].status = HTTP_500_INTERNAL_SERVER_ERROR

\* C13: on every operation a backend failure that is no tagged domain error is
\* classified by its message in one fixed priority: "not found" gives 404,
\* "already exists" or "conflict" 409, "invalid" or "bad request" 422, and
\* anything else 500.
C13_FixedClassificationPriority ==
    \A r \in Tasks :
        BackendFailed(r)
            => /\ built[r] # <<>>
               /\ built[r][1].status = ClassifyByMessage(fault[r].msg)

\* the statuses of the client-caused kinds, and of the server-side kinds
ClientCaused ==
    {HTTP_404_NOT_FOUND, HTTP_409_CONFLICT, HTTP_422_UNPROCESSABLE_ENTITY, HTTP_403_FORBIDDEN}
ServerSide == {HTTP_503_SERVICE_UNAVAILABLE, HTTP_500_INTERNAL_SERVER_ERROR}

\* C15: a request that fails in one backend call leaves exactly one failure
\* entry (warning or error) in the log, over the service, the router, the
\* exception handler and the middleware, and its failure is wrapped once: one
\* exception handler builds one envelope.
C15_FailureLoggedOnce ==
    \A r \in Tasks :
        (Answered(r) /\ fault[r] # NoFault)
            => /\ Len(logs[r]) = 1
               /\ Len(built[r]) = 1

\* C16: an exception handler logs at warning level exactly when the status it
\* maps to is client-caused (404, 409, 422, 403), and at error level exactly
\* when it is 503 or 500.
C16_LogLevelFollowsStatus ==
    \A r \in Tasks :
        \A i \in DOMAIN built[r] :
            /\ built[r][i].level = "warning" <=> built[r][i].status \in ClientCaused
            /\ built[r][i].level = "error" <=> built[r][i].status \in ServerSide

\* the route function of the request of task r raised
RouteRaised(r) == inner[r].tag = "raise" \/ built[r] # <<>>

\* C14: each error tag has one fixed status: no two error envelopes carry the
\* same tag with different status codes.
C14_OneStatusPerKind ==
    \A r1 \in Tasks, r2 \in Tasks :
        \A i \in DOMAIN built[r1], j \in DOMAIN built[r2] :
            built[r1][i].content.error = built[r2][j].content.error
                => built[r1][i].status = built[r2][j].status

\* C17: every request moves started -> dispatched -> completed or failed and
\* never back; its handler runs at most once; exactly one response is sent
\* for it; and it ends failed, not completed, when its handler raised.
C17_RequestLifeCycle ==
    [][\A r \in Tasks :
        /\ pc'[r] # pc[r]
            => <<pc[r], pc'[r]>> \in
                 { <<"idle", "started">>, <<"started", "calling">>,
                   <<"started", "dispatched">>, <<"calling", "dispatched">>,
                   <<"dispatched", "completed">>, <<"dispatched", "failed">>,
                   <<"completed", "idle">>, <<"failed", "idle">> }
        /\ (inner'[r] # inner[r] \/ calls'[r] # calls[r])
            => \/ pc[r] \in {"started", "calling"} /\ pc'[r] = "dispatched"
               \/ pc'[r] = "idle"
        /\ resp'[r] # resp[r]
            => \/ /\ pc[r] = "dispatched" /\ pc'[r] \in {"completed", "failed"}
                  /\ resp[r] = NoOutcome /\ resp'[r].tag = "response"
               \/ pc'[r] = "idle"
        /\ pc'[r] = "completed" => ~RouteRaised(r)'
        /\ pc'[r] = "failed" => RouteRaised(r)'
      ]_vars

\* a request whose handler raised has ended failed, with its response sent
C17_Witness ==
    \E r \in Tasks :
        /\ pc[r] = "failed"
        /\ calls[r] # <<>>
        /\ RouteRaised(r)
        /\ resp[r].tag = "response"

\* C18: under any interleaving of two requests, the correlation id in a
\* request's context while its handler and its exception handler run, the one
\* in the envelopes built for it and the one in its response header are its
\* own.
C18_CorrelationIdIsOwn ==
    \A r \in Tasks :
        pc[r] # "idle"
            => /\ ctx[r] = corr[r]
               /\ \A i \in DOMAIN built[r] : built[r][i].content.correlation_id = corr[r]
               /\ resp[r] # NoOutcome
                    => resp[r].headers.x_correlation_id
                         \in IF pc[r] = "completed" THEN {corr[r]} ELSE {corr[r], PyNone}

\* a request has had its envelope built under its own id while another
\* request, with another id, is in flight
C18_Witness ==
    \E r1 \in Tasks, r2 \in Tasks :
        /\ r1 # r2
        /\ pc[r1] = "dispatched" /\ built[r1] # <<>>
        /\ pc[r2] = "started"
        /\ corr[r1] # corr[r2]
        /\ built[r1][1].content.correlation_id = corr[r1]

\* C19: no request keeps the thread that runs the requests across its backend
\* call, so that other requests can start, be dispatched and complete
\* meanwhile.
C19_NoThreadHeldAcrossBackendCall ==
    \A r \in Tasks : pc[r] = "calling" => running # r

\* C20: DELETE of a resource group the backend holds is answered 202 with a
\* body of message and note once begin_delete has been called, whether or not
\* the backend has finished; DELETE of a group the backend reports missing is
\* answered 404.
C20_DeleteIs202Or404 ==
    \A r \in Tasks :
        (Answered(r) /\ req[r].kind = "rg" /\ req[r].op = "delete")
            => /\ (calls[r] = <<"get", "delete">> /\ fault[r] = NoFault)
                    => /\ resp[r].status = 202
                       /\ DOMAIN resp[r].body = {"message", "note"}
               /\ fault[r].reason = "missing"
                    => resp[r].status = HTTP_404_NOT_FOUND

\* C21: creating a resource group whose name the backend does not hold, with a
\* valid body and tags omitted, is answered 201 with an entity of the requested
\* name and location whose tags is the empty map, not null.
C21_CreateAnswers201 ==
    [][\A r \in Tasks :
        /\ ( /\ pc[r] \in {"started", "calling"} /\ pc'[r] = "dispatched"
             /\ req[r].kind = "rg" /\ req[r].op = "create"
             /\ ValidBody(req[r]) /\ req[r].body.tags = OmittedTags
             /\ ~store.rg[req[r].body.name].present
             /\ calls'[r] = <<"create">> /\ fault'[r] = NoFault )
            => /\ inner'[r].tag = "response"
               /\ inner'[r].status = 201
               /\ inner'[r].body.name = req[r].body.name
               /\ inner'[r].body.location = req[r].body.location.val
               /\ inner'[r].body.tags = EmptyTags
        /\ (pc[r] = "dispatched" /\ pc'[r] = "completed")
            => /\ resp'[r].status = inner[r].status
               /\ resp'[r].body = inner[r].body
      ]_vars

\* a resource group created with tags omitted has been answered 201, with
\* empty tags
C21_Witness ==
    \E r \in Tasks :
        /\ pc[r] = "completed"
        /\ req[r].kind = "rg" /\ req[r].op = "create" /\ req[r].body.tags = OmittedTags
        /\ calls[r] = <<"create">>
        /\ resp[r].status = 201
        /\ resp[r].body.name = req[r].body.name
        /\ resp[r].body.tags = EmptyTags

\* the request of task r had an entry logged by `at`
Logged(r, at) == \E i \in DOMAIN logs[r] : logs[r][i].at = at

\* C22: GET /health never produces an error response: it is answered 200 with
\* a health body whose status is healthy, degraded or unhealthy; healthy
\* exactly when azure_connection is true, degraded exactly when the
\* connectivity probe failed, unhealthy exactly when building the service
\* raised.
C22_HealthNeverFails ==
    \A r \in Tasks :
        (Routed(r) /\ req[r].kind = "health")
            => /\ inner[r].tag = "response"
               /\ inner[r].status = 200
               /\ built[r] = <<>>
               /\ pc[r] # "failed"
               /\ Answered(r) => (resp[r].status = 200 /\ resp[r].body = inner[r].body)
               /\ inner[r].body.status \in {"healthy", "degraded", "unhealthy"}
               /\ inner[r].body.status = "healthy" <=> inner[r].body.azure_connection
               /\ inner[r].body.status = "degraded"
                    <=> Logged(r, "AzureService.test_connection")
               /\ inner[r].body.status = "unhealthy" <=> Logged(r, "health_check")

\* a health check whose probe failed has been answered as degraded
C22_Witness ==
    \E r \in Tasks :
        /\ Answered(r) /\ req[r].kind = "health"
        /\ Logged(r, "AzureService.test_connection")
        /\ resp[r].status = 200
        /\ resp[r].body.status = "degraded"
        /\ ~resp[r].body.azure_connection

\* the correlation id the exception handled for task r carried, None when its
\* class has none
CarriedId(r) ==
    IF inner[r].exc.cls \in AzureAPIClasses THEN inner[r].exc.correlation_id ELSE PyNone

\* C23: the correlation_id of an error envelope is never null or empty: it is
\* the id the raised domain error carries when that is set, otherwise the
\* request id of the context, and "unknown" only when neither exists.
C23_EnvelopeIdPopulated ==
    \A r \in Tasks :
        \A i \in DOMAIN built[r] :
            LET cid == built[r][i].content.correlation_id
            IN /\ Truthy(cid)
               /\ Truthy(CarriedId(r)) => cid = CarriedId(r)
               /\ (~Truthy(CarriedId(r)) /\ Truthy(ctx[r])) => cid = ctx[r]
               /\ cid = Unknown <=> (~Truthy(CarriedId(r)) /\ ~Truthy(ctx[r]))

\* an envelope has been built with the sentinel, for an exception without an
\* id in a task whose context has none, and another with the id its exception
\* carried
C23_Witness ==
    \E r1 \in Tasks, r2 \in Tasks :
        /\ built[r1] # <<>> /\ ~Truthy(CarriedId(r1)) /\ ~Truthy(ctx[r1])
        /\ built[r1][1].content.correlation_id = Unknown
        /\ built[r2] # <<>> /\ Truthy(CarriedId(r2)) /\ Truthy(ctx[r2])
        /\ built[r2][1].content.correlation_id = CarriedId(r2)

\* C24: the settings are loaded once and never change: the cache holds the
\* value read when the process started whatever happens to the environment
\* and whatever requests run, and every request that asks for the settings
\* gets that value.
C24_SettingsLoadedOnce ==
    /\ settings = <<Settings(BootEnviron)>>
    /\ \A r \in Tasks :
           (Routed(r) /\ req[r].kind = "health")
               => inner[r].body.version = Settings(BootEnviron).version

\* a health check has been answered with the version read at start while the
\* environment names another
C24_Witness ==
    \E r \in Tasks :
        /\ Answered(r) /\ req[r].kind = "health"
        /\ Settings(environ).version # Settings(BootEnviron).version
        /\ resp[r].body.version = Settings(BootEnviron).version

\* what the backend st holds under name n of kind k, as a read returns it
StoredView(k, n, st) ==
    [name |-> n, location |-> st[k][n].location, tags |-> st[k][n].tags]

\* the entries of the listing the route function returned in this step
ListedNext(r) ==
    IF req[r].kind = "rg" THEN inner'[r].body.resource_groups
    ELSE inner'[r].body.storage_accounts

\* C25: nothing is cached: every successful get and list invokes the backend
\* in its own request and returns what the backend holds at that time, after
\* any sequence of earlier creates, updates and deletes.
C25_ReadsRefetch ==
    [][\A r \in Tasks :
        ( /\ pc[r] \in {"started", "calling"} /\ pc'[r] = "dispatched"
          /\ req[r].kind \in Kinds /\ req[r].op \in {"get", "list"}
          /\ inner'[r].tag = "response" )
            => /\ calls'[r] = <<req[r].op>>
               /\ inner'[r].status = 200
               /\ req[r].op = "get"
                    => /\ store[req[r].kind][req[r].name].present
                       /\ inner'[r].body = StoredView(req[r].kind, req[r].name, store)
               /\ req[r].op = "list"
                    => /\ {ListedNext(r)[i].name : i \in DOMAIN ListedNext(r)}
                            = {n \in NamesOf(req[r].kind) : store[req[r].kind][n].present}
                       /\ \A i \in DOMAIN ListedNext(r) :
                            ListedNext(r)[i]
                              = StoredView(req[r].kind, ListedNext(r)[i].name, store)
      ]_vars

\* a get has been answered with tags the backend holds for the name
C25_Witness ==
    \E r \in Tasks :
        /\ pc[r] = "completed" /\ req[r].kind \in Kinds /\ req[r].op = "get"
        /\ calls[r] = <<"get">>
        /\ resp[r].status = 200
        /\ resp[r].body.tags = SomeTags
        /\ resp[r].body = StoredView(req[r].kind, req[r].name, store)

\* C26: an update or a delete reads the entity before it issues the mutating
\* call, issues no mutating call when that read failed, and so changes nothing
\* in the backend when the answer built for it is a 404.
C26_ReadBeforeMutation ==
    [][\A r \in Tasks :
        ( /\ pc[r] \in {"started", "calling"} /\ pc'[r] = "dispatched"
          /\ req[r].kind \in Kinds /\ req[r].op \in {"update", "delete"} )
            => /\ calls'[r] \in {<<>>, <<"get">>, <<"get", req[r].op>>}
               /\ ~store[req[r].kind][req[r].name].present
                    => (calls'[r] \in {<<>>, <<"get">>} /\ store' = store)
               /\ (calls'[r] = <<"get">> /\ fault'[r] # NoFault) => store' = store
               /\ store' # store => (calls'[r] = <<"get", req[r].op>> /\ fault'[r] = NoFault)
               /\ (built'[r] # <<>> /\ built'[r][1].status = HTTP_404_NOT_FOUND)
                    => store' = store
      ]_vars

\* an update of a name the backend does not hold has stopped after the read,
\* with a 404 built for it
C26_Witness ==
    \E r \in Tasks :
        /\ Routed(r) /\ req[r].op = "update"
        /\ fault[r].reason = "missing"
        /\ calls[r] = <<"get">>
        /\ built[r] # <<>> /\ built[r][1].status = HTTP_404_NOT_FOUND
        /\ ~store[req[r].kind][req[r].name].present

\* the backend failure of the request of task r is one the resource-group
\* routes single out: the typed not-found error, or for a create a message
\* saying "already exists" or "conflict"
SingledOut(r) ==
    \/ fault[r].cls = "ResourceNotFoundError"
    \/ /\ req[r].op = "create"
       /\ \/ Contains(<<"already", "exists">>, Lower(fault[r].msg))
          \/ Contains(<<"conflict">>, Lower(fault[r].msg))

\* C27: every resource-group operation answers a backend failure that is
\* neither the typed not-found error nor, for a create, a message saying
\* "already exists" or "conflict", with 503 and the kind AzureConnectionError;
\* so does list for every failure, and so does a failure whose message only
\* contains "not found".
C27_ResourceGroupFailureIs503 ==
    \A r \in Tasks :
        (Answered(r) /\ req[r].kind = "rg" /\ fault[r] # NoFault /\ ~SingledOut(r))
            => /\ resp[r].status = HTTP_503_SERVICE_UNAVAILABLE
               /\ IsEnvelope(resp[r])
               /\ resp[r].body.error = PyStr(<<"AzureConnectionError">>)

\* the status the storage-account routes give a backend failure with message s
StorageStatus(op, s) ==
    IF op = "create"
    THEN IF \/ Contains(<<"already", "exists">>, Lower(s))
            \/ Contains(<<"conflict">>, Lower(s))
         THEN HTTP_409_CONFLICT
         ELSE IF \/ Contains(<<"invalid">>, Lower(s))
                 \/ Contains(<<"bad", "request">>, Lower(s))
         THEN HTTP_400_BAD_REQUEST
         ELSE HTTP_500_INTERNAL_SERVER_ERROR
    ELSE IF Contains(<<"not", "found">>, Lower(s))
         THEN HTTP_404_NOT_FOUND
         ELSE HTTP_500_INTERNAL_SERVER_ERROR

\* C28: a storage-account get, update or delete answers a backend failure with
\* 404 exactly when its message contains "not found" in any case, and with 500
\* otherwise; a create answers 409 for "already exists" or "conflict", tested
\* first, 400 for "invalid" or "bad request", and 500 otherwise.
C28_StorageFailureStatus ==
    \A r \in Tasks :
        ( /\ Answered(r) /\ req[r].kind = "sa" /\ fault[r] # NoFault
          /\ req[r].op \in {"get", "update", "delete", "create"} )
            => resp[r].status = StorageStatus(req[r].op, fault[r].msg)

\* C29: an update request that omits tags leaves the tags the backend holds
\* for the entity unchanged, for resource groups as for storage accounts.
C29_OmittedTagsUnchanged ==
    [][\A r \in Tasks :
        ( /\ pc[r] \in {"started", "calling"} /\ pc'[r] = "dispatched"
          /\ req[r].kind \in Kinds /\ req[r].op = "update"
          /\ req[r].body.tags = OmittedTags )
            => store'[req[r].kind][req[r].name].tags = store[req[r].kind][req[r].name].tags
      ]_vars

\* position p of the text s holds a whole '/'-separated segment that is
\* exactly "resourceGroups"
IsGroupsSegment(s, p) ==
    /\ s[p] = "resourceGroups"
    /\ p = 1 \/ s[p - 1] = "/"
    /\ p = Len(s) \/ s[p + 1] = "/"

\* the segment of s that starts at position p: up to the next '/' or the end
SegmentAt(s, p) ==
    LET stop == CHOOSE e \in (p - 1)..Len(s) :
                    /\ \A j \in p..e : s[j] # "/"
                    /\ e = Len(s) \/ s[e + 1] = "/"
    IN SubSeq(s, p, stop)

\* C30: _extract_resource_group_from_id returns the segment right after the
\* first '/'-separated segment that is exactly "resourceGroups", and the empty
\* string when the id is None or empty, has no such segment, or has it last.
C30_ExtractResourceGroup ==
    extract.called =>
        IF ~Truthy(extract.resource_id) THEN extract.result = <<>>
        ELSE LET s == extract.resource_id.val
                 hits == {p \in 1..Len(s) : IsGroupsSegment(s, p)}
             IN IF hits = {} THEN extract.result = <<>>
                ELSE LET first == CHOOSE p \in hits : \A o \in hits : p <= o
                     IN IF first = Len(s) THEN extract.result = <<>>
                        ELSE extract.result = SegmentAt(s, first + 2)

\* the group has been extracted from an id that has "resourceGroups" twice
C30_Witness ==
    /\ extract.called
    /\ extract.resource_id = PyStr(<<"resourceGroups", "/", "rg1", "/", "resourceGroups">>)
    /\ extract.result = <<"rg1">>

====
